---- MODULE Spec2Model ----
(***************************************************************************)
(* Model of the two server routes of hs-facebook-ads and of its page:      *)
(*   - the generation route  (POST of src/unnamed/part_000)                *)
(*   - the translation route (POST of api/translate/route.ts)              *)
(*   - the history of the browser page (Home of app/page.tsx)              *)
(* A completion text is a sequence of JSON lexemes; JSON.parse, trim,      *)
(* indexOf/lastIndexOf/slice, String() and the property reads are modelled *)
(* by what they do on that sequence.                                       *)
(***************************************************************************)
EXTENDS Integers, Sequences, FiniteSets, TLC

(***************************************************************************)
(* Bounds of the model.                                                    *)
(***************************************************************************)
\* longest ad list the upstream model returns
MaxAds == 4
\* most lexemes a truncated completion loses at its end
MaxCut == 2
\* most ads a translation request carries
MaxReqAds == 2
\* most requests the page completes with a history entry
MaxPushes == 3

(***************************************************************************)
(* JSON values.  Every value is a record [t, s, a]:                        *)
(*   null    t = "null"                                                    *)
(*   number  t = "num",  s = its digits                                    *)
(*   string  t = "str",  s = its characters (" " is whitespace)            *)
(*   array   t = "arr",  a = its elements                                  *)
(*   object  t = "obj",  a = <<key1, value1, key2, value2, ...>>           *)
(***************************************************************************)
JNull == [t |-> "null", s |-> <<>>, a |-> <<>>]
JNum(d) == [t |-> "num", s |-> d, a |-> <<>>]
JStr(c) == [t |-> "str", s |-> c, a |-> <<>>]
JArr(e) == [t |-> "arr", s |-> <<>>, a |-> e]
JObj(kv) == [t |-> "obj", s |-> <<>>, a |-> kv]
\* the value of a missing property
Undefined == [t |-> "undefined", s |-> <<>>, a |-> <<>>]

(***************************************************************************)
(* Lexemes of a text: punctuation, literals, one whitespace character      *)
(* ("ws") and one character that starts no JSON lexeme ("junk").           *)
(***************************************************************************)
Tok(k) == [k |-> k, v |-> <<>>]
StrTok(c) == [k |-> "str", v |-> c]
NumTok(d) == [k |-> "num", v |-> d]

\* String.prototype.trim on a string of characters
RECURSIVE TrimLeft(_)
TrimLeft(s) ==
  IF s # <<>> /\ Head(s) = " " THEN TrimLeft(Tail(s)) ELSE s

RECURSIVE TrimRight(_)
TrimRight(s) ==
  IF s # <<>> /\ s[Len(s)] = " " THEN TrimRight(SubSeq(s, 1, Len(s) - 1)) ELSE s

Trim(s) == TrimRight(TrimLeft(s))

\* String.prototype.trim on a text: whitespace lexemes at both ends go
RECURSIVE TrimTextLeft(_)
TrimTextLeft(x) ==
  IF x # <<>> /\ Head(x).k = "ws" THEN TrimTextLeft(Tail(x)) ELSE x

RECURSIVE TrimTextRight(_)
TrimTextRight(x) ==
  IF x # <<>> /\ x[Len(x)].k = "ws"
  THEN TrimTextRight(SubSeq(x, 1, Len(x) - 1)) ELSE x

TrimText(x) == TrimTextRight(TrimTextLeft(x))

\* content.indexOf(c): first position of the lexeme, 0 for JavaScript's -1
RECURSIVE IndexFrom(_, _, _)
IndexFrom(x, k, i) ==
  IF i > Len(x) THEN 0
  ELSE IF x[i].k = k THEN i ELSE IndexFrom(x, k, i + 1)

IndexOf(x, k) == IndexFrom(x, k, 1)

\* content.lastIndexOf(c): last position of the lexeme, 0 for JavaScript's -1
RECURSIVE LastIndexFrom(_, _, _)
LastIndexFrom(x, k, i) ==
  IF i < 1 THEN 0
  ELSE IF x[i].k = k THEN i ELSE LastIndexFrom(x, k, i - 1)

LastIndexOf(x, k) == LastIndexFrom(x, k, Len(x))

(***************************************************************************)
(* JSON.parse.  Whitespace between lexemes is skipped; the grammar is      *)
(* value := null | number | string | [ value,* ] | { string : value,* }    *)
(* and the whole text must be one value.  ok = FALSE is the SyntaxError.   *)
(***************************************************************************)
ParseFail == [ok |-> FALSE, val |-> JNull, next |-> 0]

SkipWs(x) == SelectSeq(x, LAMBDA tk : tk.k # "ws")

RECURSIVE ParseValue(_, _)
RECURSIVE ParseElems(_, _, _)
RECURSIVE ParseMembers(_, _, _)

ParseValue(x, i) ==
  IF i > Len(x) THEN ParseFail
  ELSE CASE x[i].k = "null" -> [ok |-> TRUE, val |-> JNull, next |-> i + 1]
         [] x[i].k = "num" -> [ok |-> TRUE, val |-> JNum(x[i].v), next |-> i + 1]
         [] x[i].k = "str" -> [ok |-> TRUE, val |-> JStr(x[i].v), next |-> i + 1]
         [] x[i].k = "[" ->
              IF i + 1 <= Len(x) /\ x[i + 1].k = "]"
              THEN [ok |-> TRUE, val |-> JArr(<<>>), next |-> i + 2]
              ELSE ParseElems(x, i + 1, Len(x))
         [] x[i].k = "{" ->
              IF i + 1 <= Len(x) /\ x[i + 1].k = "}"
              THEN [ok |-> TRUE, val |-> JObj(<<>>), next |-> i + 2]
              ELSE ParseMembers(x, i + 1, <<>>)
         [] OTHER -> ParseFail

\* the elements from lexeme i on, n of them at most, up to their "," or "]";
\* a long list is read by halves, so that the depth of the evaluation grows
\* with the logarithm of its length
ParseElems(x, i, n) ==
  IF n <= 1
  THEN LET r == ParseValue(x, i) IN
       IF ~r.ok \/ r.next > Len(x) THEN ParseFail
       ELSE IF x[r.next].k \in {",", "]"}
            THEN [ok |-> TRUE, val |-> JArr(<<r.val>>), next |-> r.next + 1]
       ELSE ParseFail
  ELSE LET l == ParseElems(x, i, n \div 2) IN
       IF ~l.ok \/ x[l.next - 1].k = "]" THEN l
       ELSE LET r == ParseElems(x, l.next, n - n \div 2) IN
            IF ~r.ok THEN ParseFail
            ELSE [ok |-> TRUE, val |-> JArr(l.val.a \o r.val.a), next |-> r.next]

ParseMembers(x, i, acc) ==
  IF i + 1 > Len(x) \/ x[i].k # "str" \/ x[i + 1].k # ":" THEN ParseFail
  ELSE LET r == ParseValue(x, i + 2) IN
       IF ~r.ok \/ r.next > Len(x) THEN ParseFail
       ELSE IF x[r.next].k = ","
            THEN ParseMembers(x, r.next + 1, acc \o <<JStr(x[i].v), r.val>>)
       ELSE IF x[r.next].k = "}"
            THEN [ok |-> TRUE, val |-> JObj(acc \o <<JStr(x[i].v), r.val>>),
                  next |-> r.next + 1]
       ELSE ParseFail

JSONParse(text) ==
  LET x == SkipWs(text)
      r == ParseValue(x, 1)
  IN IF r.ok /\ r.next = Len(x) + 1 THEN r ELSE ParseFail

(***************************************************************************)
(* Reads on parsed values.                                                 *)
(***************************************************************************)
\* Array.isArray(v)
IsArray(v) == v.t = "arr"

\* obj[key] on an object: the last member of that name, else undefined
RECURSIVE Lookup(_, _, _)
Lookup(kv, key, i) ==
  IF i < 1 THEN Undefined
  ELSE IF kv[2 * i - 1].s = key THEN kv[2 * i] ELSE Lookup(kv, key, i - 1)

\* v.key for a value that is neither null nor undefined
GetProp(v, key) ==
  IF v.t = "obj" THEN Lookup(v.a, key, Len(v.a) \div 2) ELSE Undefined

\* reading a property of null or undefined throws a TypeError
PropThrows(v) == v.t \in {"null", "undefined"}

\* JavaScript truthiness
Truthy(v) ==
  CASE v.t \in {"null", "undefined"} -> FALSE
    [] v.t = "str" -> v.s # <<>>
    [] v.t = "num" -> v.s # <<"0">>
    [] OTHER -> TRUE

\* String(v) for a truthy v
RECURSIVE JoinElems(_)
StringOf(v) ==
  CASE v.t = "str" -> v.s
    [] v.t = "num" -> v.s
    [] v.t = "arr" -> JoinElems(v.a)
    [] OTHER -> <<"[object Object]">>
JoinElems(e) ==
  IF e = <<>> THEN <<>>
  ELSE LET h == IF Head(e).t \in {"null", "undefined"} THEN <<>> ELSE StringOf(Head(e))
       IN IF Len(e) = 1 THEN h ELSE h \o <<",">> \o JoinElems(Tail(e))

(***************************************************************************)
(* What the completion API can answer.  The upstream model is asked for    *)
(* {"ads": [...]}, and its answer is described by the list it means, the   *)
(* shape it wraps the list in and the way the text is damaged.             *)
(***************************************************************************)
Chars(c) == <<c>>
Key(k) == JStr(Chars(k))

\* a well-formed ad
GoodAd ==
  JObj(<<Key("title"), JStr(<<"a">>), Key("description"), JStr(<<"b">>),
         Key("cta"), JStr(<<"c">>)>>)
\* a well-formed ad whose strings carry surrounding whitespace
PaddedAd ==
  JObj(<<Key("title"), JStr(<<" ", "d", " ">>), Key("description"), JStr(<<"e", " ">>),
         Key("cta"), JStr(<<" ", "f">>)>>)
\* an ad without cta
NoCtaAd == JObj(<<Key("title"), JStr(<<"a">>), Key("description"), JStr(<<"b">>)>>)
\* an ad whose cta is whitespace only
BlankCtaAd ==
  JObj(<<Key("title"), JStr(<<"a">>), Key("description"), JStr(<<"b">>),
         Key("cta"), JStr(<<" ">>)>>)

Elems == {GoodAd, PaddedAd, NoCtaAd, BlankCtaAd, JNull, JNum(<<"1">>)}

\* the kinds of element that follow the three ads the model was asked for
ExtraElems == {GoodAd, JNull}

\* the lists of at most n elements: any element up to the third, then extras
RECURSIVE ListsUpTo(_)
ListsUpTo(n) ==
  IF n = 0 THEN {<<>>}
  ELSE ListsUpTo(n - 1)
       \cup {Append(l, e) : l \in {k \in ListsUpTo(n - 1) : Len(k) = n - 1},
                            e \in IF n <= 3 THEN Elems ELSE ExtraElems}

AdLists == ListsUpTo(MaxAds)

Shapes == {"bare", "ads", "other"}
\* what precedes and surrounds the JSON: nothing, whitespace, or a sentence
Leads == {"none", "ws", "prose"}

\* cut is the number of lexemes the text lost at its end
Upstreams ==
  [list : AdLists, shape : Shapes, lead : Leads, cut : 0..MaxCut]
  \cup [list : {<<>>}, shape : {"scalar", "absent"}, lead : {"none"}, cut : {0}]

\* the value the upstream model means
ValueOf(l, sh) ==
  CASE sh = "bare" -> JArr(l)
    [] sh = "ads" -> JObj(<<Key("ads"), JArr(l)>>)
    [] sh = "other" -> JObj(<<Key("result"), JArr(l)>>)
    [] OTHER -> JObj(<<Key("ads"), JNull>>)

\* JSON.stringify, as the upstream model writes its answer
RECURSIVE Stringify(_)
RECURSIVE StringifyElems(_)
RECURSIVE StringifyMembers(_)
Stringify(v) ==
  CASE v.t = "null" -> <<Tok("null")>>
    [] v.t = "num" -> <<NumTok(v.s)>>
    [] v.t = "str" -> <<StrTok(v.s)>>
    [] v.t = "arr" -> <<Tok("[")>> \o StringifyElems(v.a) \o <<Tok("]")>>
    [] OTHER -> <<Tok("{")>> \o StringifyMembers(v.a) \o <<Tok("}")>>
StringifyElems(e) ==
  IF e = <<>> THEN <<>>
  ELSE IF Len(e) = 1 THEN Stringify(e[1])
  ELSE LET half == Len(e) \div 2
       IN StringifyElems(SubSeq(e, 1, half)) \o <<Tok(",")>>
          \o StringifyElems(SubSeq(e, half + 1, Len(e)))
StringifyMembers(kv) ==
  IF kv = <<>> THEN <<>>
  ELSE LET m == <<StrTok(kv[1].s), Tok(":")>> \o Stringify(kv[2])
       IN IF Len(kv) = 2 THEN m
          ELSE m \o <<Tok(",")>> \o StringifyMembers(SubSeq(kv, 3, Len(kv)))

\* the text of message.content; shape "absent" is a missing content
TextOf(u) ==
  LET x == Stringify(ValueOf(u.list, u.shape))
      y == IF u.cut < Len(x) THEN SubSeq(x, 1, Len(x) - u.cut) ELSE <<>>
  IN CASE u.shape = "absent" -> <<>>
       [] u.lead = "ws" -> <<Tok("ws")>> \o y \o <<Tok("ws"), Tok("ws")>>
       [] u.lead = "prose" -> <<Tok("junk"), Tok("ws")>> \o y
       [] OTHER -> y

(***************************************************************************)
(* Responses.  keys is the set of members the JSON body carries; a member  *)
(* that is not in keys holds its empty default.                            *)
(***************************************************************************)
NoSource == [url |-> "", h1 |-> "", meta |-> "", variant |-> FALSE]

Response(st, err, ks, rw, it, ad, src) ==
  [status |-> st, error |-> err, keys |-> ks, raw |-> rw, items |-> it,
   ads |-> ad, source |-> src]

NoResponse == Response(0, "", {}, <<>>, <<>>, <<>>, NoSource)

ErrorResponse(st, err) == Response(st, err, {"error"}, <<>>, <<>>, <<>>, NoSource)

ERR_MISSING_INPUT == "Zahteva mora vsebovati 'url' ali 'variantOf'."
ERR_MISSING_KEY == "Manjka okoljska spremenljivka OPENAI_API_KEY."
ERR_INVALID_JSON == "Neveljaven JSON iz OpenAI."
ERR_TOO_FEW == "Prejetih je premalo oglasov."
ERR_MISSING_DATA == "Manjkajo podatki: ads ali targetLanguage."

(***************************************************************************)
(* Generation route: parsing and normalising the completion text.          *)
(***************************************************************************)
\* the ads kept from the parsed list
KeptAds == 3

\* the strict attempt with its errors swallowed, as an empty list
StrictParse_SwallowsError(content) ==
  LET p == JSONParse(content) IN
  IF ~p.ok THEN [thrown |-> FALSE, parsed |-> <<>>]
  ELSE IF IsArray(p.val) THEN [thrown |-> FALSE, parsed |-> p.val.a]
  ELSE LET ads == GetProp(p.val, Chars("ads")) IN
       IF Truthy(p.val) /\ IsArray(ads)
       THEN [thrown |-> FALSE, parsed |-> ads.a]
       ELSE [thrown |-> FALSE, parsed |-> <<>>]

\* the strict attempt: an array, or the ads array of an object, else a throw
StrictParse(content) ==
  LET p == JSONParse(content) IN
  IF ~p.ok THEN [thrown |-> TRUE, parsed |-> <<>>]
  ELSE IF IsArray(p.val) THEN [thrown |-> FALSE, parsed |-> p.val.a]
  ELSE LET ads == GetProp(p.val, Chars("ads")) IN
       IF Truthy(p.val) /\ IsArray(ads)
       THEN [thrown |-> FALSE, parsed |-> ads.a]
       ELSE [thrown |-> TRUE, parsed |-> <<>>]

\* the fallback: parse the text from its first [ to its last ]
FallbackParse(content) ==
  LET start == IndexOf(content, "[")
      end == LastIndexOf(content, "]")
  IN IF start # 0 /\ end # 0 /\ end > start
     THEN LET arr == JSONParse(SubSeq(content, start, end))
          IN IF arr.ok /\ IsArray(arr.val) THEN arr.val.a ELSE <<>>
     ELSE <<>>

\* item.title, item.description or item.cta, coerced and trimmed
Field(item, name) ==
  LET v == GetProp(item, Chars(name))
  IN Trim(IF Truthy(v) THEN StringOf(v) ELSE <<>>)

NormalizeItem(item) ==
  [title |-> Field(item, "title"), description |-> Field(item, "description"),
   cta |-> Field(item, "cta")]

\* the filter without its cta test
IsUsable_IgnoresCta(a) == a.title # <<>> /\ a.description # <<>>

\* the filter of the normalised list
IsUsable(a) == a.title # <<>> /\ a.description # <<>> /\ a.cta # <<>>

FirstAds(parsed) == SubSeq(parsed, 1, IF Len(parsed) < KeptAds THEN Len(parsed) ELSE KeptAds)

\* the map over the first ads throws on an element that has no properties
MapThrows(parsed) ==
  LET first == FirstAds(parsed) IN \E i \in 1..Len(first) : PropThrows(first[i])

Normalize(parsed) ==
  LET first == FirstAds(parsed)
  IN SelectSeq([i \in 1..Len(first) |-> NormalizeItem(first[i])], IsUsable)

ERR_TYPE == "Cannot read properties of null (reading 'title')"

\* lines 173-193: the response of the route to a parsed list
NormalizeResponse(parsed, src) ==
  IF MapThrows(parsed) THEN ErrorResponse(500, ERR_TYPE)
  ELSE LET normalized == Normalize(parsed) IN
       IF Len(normalized) < KeptAds
       THEN Response(502, ERR_TOO_FEW, {"error", "items"}, <<>>, normalized, <<>>,
                     NoSource)
       ELSE Response(200, "", {"source", "ads"}, <<>>, <<>>, normalized, src)

\* lines 147-193: the response of the route to a completion text
GenerateResponse(content, src) ==
  LET strict == StrictParse(content) IN
  IF ~strict.thrown THEN NormalizeResponse(strict.parsed, src)
  ELSE LET parsed == FallbackParse(content) IN
       IF parsed = <<>>
       THEN Response(502, ERR_INVALID_JSON, {"error", "raw"}, content, <<>>, <<>>,
                     NoSource)
       ELSE NormalizeResponse(parsed, src)

(***************************************************************************)
(* The state of one request.                                               *)
(***************************************************************************)
VARIABLES
  body,       \* the request body, json = FALSE when req.json() rejects
  apiKey,     \* process.env.OPENAI_API_KEY, "" when it is not set
  pc,         \* where the handler stands: start, scraping, completing, done
  h1,         \* scraped heading
  meta,       \* scraped description
  calls,      \* the outbound calls of the request and their outcomes, in order
  upstream,   \* what the completion API meant to answer
  content,    \* completion text after trim() || ""
  response    \* the response of the handler

(***************************************************************************)
(* The state of the browser page.                                          *)
(***************************************************************************)
VARIABLES
  mounted,            \* the effect of the first render has run
  history,            \* useState history: the entries, as JSON values
  storage,            \* the localStorage item "hs_ads_history"
  selectedHistoryId,  \* useState selectedHistoryId
  pageAds,            \* useState ads: the ads the page shows
  pending,            \* the request in flight, its kind and the label of its entry
  pushes,             \* how many times pushHistory has run
  lastHistoryOp,      \* the last operation on the history: push or clear
  lastSetItem         \* how the last localStorage.setItem ended: ok or threw

pageVars ==
  <<mounted, history, storage, selectedHistoryId, pageAds, pending, pushes,
    lastHistoryOp, lastSetItem>>

serverVars == <<body, apiKey, pc, h1, meta, calls, upstream, content, response>>

vars == <<serverVars, pageVars>>

\* localStorage.getItem gives null for an item that is not there
NoItem == [present |-> FALSE, text |-> <<>>]
Item(text) == [present |-> TRUE, text |-> text]

\* no request of the page is in flight
NoRequest == [kind |-> "none", label |-> <<>>]

\* lines 20-29: the page as it is first rendered
PageInitial ==
  /\ mounted = FALSE
  /\ history = <<>>
  /\ selectedHistoryId = JNull
  /\ pageAds = <<>>
  /\ pending = NoRequest
  /\ pushes = 0
  /\ lastHistoryOp = "none"
  /\ lastSetItem = "none"

NoValue == "undefined"
ProductUrl == "https://shop.example/p"

NoUpstream == [list |-> <<>>, shape |-> "none", lead |-> "none", cut |-> 0]

\* a base ad of a variation request
BaseAd == [title |-> <<"a">>, description |-> <<"b">>, cta |-> <<"c">>]

\* bodies without customPrompt and language; customPrompt is <<>> when the
\* body has none
GenerateBodies ==
  [json : BOOLEAN, url : {NoValue, "", ProductUrl}, hasVariantOf : BOOLEAN,
   customPrompt : {<<>>}, language : {NoValue}]

\* bodies with every combination of the four members
RequestBodies ==
  [json : BOOLEAN, url : {NoValue, "", ProductUrl}, hasVariantOf : BOOLEAN,
   customPrompt : {<<>>, <<" ">>, <<"p", " ">>}, language : {NoValue, "German"}]

\* !url
NoUrl(b) == b.url \in {NoValue, ""}

\* the validation left out
MissingInput_Skipped(b) == FALSE

\* the validation with || for &&
MissingInput_EitherMissing(b) == NoUrl(b) \/ ~b.hasVariantOf

\* line 88: !url && !variantOf
MissingInput(b) == NoUrl(b) /\ ~b.hasVariantOf

(***************************************************************************)
(* scrapePage: the first h1 and the description of the fetched page.       *)
(***************************************************************************)
Pages ==
  {[h1 |-> "", description |-> NoValue, og |-> NoValue],
   [h1 |-> "Heading", description |-> NoValue, og |-> "Description"],
   [h1 |-> "Heading", description |-> "Description", og |-> "Og"]}

OrUndefined(x) == IF x \in {NoValue, ""} THEN NoValue ELSE x

ScrapePage(page) ==
  [h1 |-> OrUndefined(page.h1),
   meta |-> IF OrUndefined(page.description) # NoValue THEN page.description
            ELSE OrUndefined(page.og)]

(***************************************************************************)
(* Generation route, POST of part_000.                                     *)
(***************************************************************************)
InitGenerate ==
  /\ body \in GenerateBodies
  /\ apiKey \in {"", "sk-key"}
  /\ pc = "start"
  /\ h1 = NoValue
  /\ meta = NoValue
  /\ calls = <<>>
  /\ upstream = NoUpstream
  /\ content = <<>>
  /\ response = NoResponse
  /\ storage = NoItem
  /\ PageInitial

Finish(r) ==
  /\ pc' = "done"
  /\ response' = r

\* the completion call without the credential check
CallCompletion_NoKeyCheck(log) ==
  /\ pc' = "completing"
  /\ calls' = Append(log, "completion")
  /\ UNCHANGED response

\* lines 100-108: the credential check and the completion call
CallCompletion(log) ==
  IF apiKey = ""
  THEN /\ Finish(ErrorResponse(500, ERR_MISSING_KEY))
       /\ calls' = log
  ELSE /\ pc' = "completing"
       /\ calls' = Append(log, "completion")
       /\ UNCHANGED response

\* lines 87-96: the body is read and validated, the scrape is issued
GenerateStart ==
  /\ pc = "start"
  /\ IF ~body.json
     THEN /\ Finish(ErrorResponse(500, "Unexpected end of JSON input"))
          /\ UNCHANGED calls
     ELSE IF MissingInput(body)
     THEN /\ Finish(ErrorResponse(400, ERR_MISSING_INPUT))
          /\ UNCHANGED calls
     ELSE IF ~NoUrl(body)
     THEN /\ pc' = "scraping"
          /\ calls' = Append(calls, "scrape")
          /\ UNCHANGED response
     ELSE CallCompletion(calls)
  /\ UNCHANGED <<body, apiKey, h1, meta, upstream, content>>
  /\ UNCHANGED pageVars

\* lines 96-108: axios.get resolves
ScrapeResolves ==
  /\ pc = "scraping"
  /\ \E page \in Pages :
       /\ h1' = ScrapePage(page).h1
       /\ meta' = ScrapePage(page).meta
  /\ CallCompletion(Append(calls, "scrape:ok"))
  /\ UNCHANGED <<body, apiKey, upstream, content>>
  /\ UNCHANGED pageVars

\* lines 96, 190-193: axios.get rejects
ScrapeRejects ==
  /\ pc = "scraping"
  /\ Finish(ErrorResponse(500, "timeout of 15000ms exceeded"))
  /\ calls' = Append(calls, "scrape:error")
  /\ UNCHANGED <<body, apiKey, h1, meta, upstream, content>>
  /\ UNCHANGED pageVars

\* lines 19-72: the mode of the prompt and the context it quotes; the prompt
\* of a variation quotes the base ad and nothing of the page
BuildPrompt(productUrl, title, metaDescription, customPrompt, hasVariantOf, language) ==
  IF hasVariantOf
  THEN [mode |-> "variation", language |-> language, productUrl |-> "", title |-> "",
        metaDescription |-> "", customPrompt |-> <<>>, base |-> BaseAd]
  ELSE [mode |-> IF customPrompt # <<>> /\ Len(Trim(customPrompt)) > 0
                 THEN "custom" ELSE "generic",
        language |-> language,
        productUrl |-> productUrl,
        title |-> IF title = NoValue THEN "" ELSE title,
        metaDescription |-> IF metaDescription = NoValue THEN "" ELSE metaDescription,
        customPrompt |-> IF customPrompt # <<>> /\ Len(Trim(customPrompt)) > 0
                         THEN customPrompt ELSE <<>>,
        base |-> [title |-> <<>>, description |-> <<>>, cta |-> <<>>]]

\* line 106: the prompt of the completion call, url || "" for its url and
\* language || "Slovenian" for its language
Prompt ==
  BuildPrompt(IF NoUrl(body) THEN "" ELSE body.url, h1, meta, body.customPrompt,
              body.hasVariantOf,
              IF body.language \in {NoValue, ""} THEN "Slovenian" ELSE body.language)

Source ==
  [url |-> body.url, h1 |-> h1, meta |-> meta, variant |-> body.hasVariantOf]

\* lines 145-189: the completion resolves, its text is parsed and answered
CompletionResolvesWith(answers) ==
  /\ pc = "completing"
  /\ \E u \in answers :
       LET text == TrimText(TextOf(u)) IN
       /\ upstream' = u
       /\ content' = text
       /\ Finish(GenerateResponse(text, Source))
  /\ calls' = Append(calls, "completion:ok")
  /\ UNCHANGED <<body, apiKey, h1, meta>>
  /\ UNCHANGED pageVars

GenerateCompletionResolves == CompletionResolvesWith(Upstreams)

\* lines 108, 190-193: the completion call rejects
CompletionRejects ==
  /\ pc = "completing"
  /\ Finish(ErrorResponse(500, "Connection error."))
  /\ calls' = Append(calls, "completion:error")
  /\ UNCHANGED <<body, apiKey, h1, meta, upstream, content>>
  /\ UNCHANGED pageVars

NextGenerate ==
  \/ GenerateStart
  \/ ScrapeResolves
  \/ ScrapeRejects
  \/ GenerateCompletionResolves
  \/ CompletionRejects

Spec == InitGenerate /\ [][NextGenerate]_vars

(***************************************************************************)
(* The generation route over every shape of request body, the completion   *)
(* answering with a few well-formed texts.                                 *)
(***************************************************************************)
\* {"ads": [...]} with no ad, three good ads, or three good ads and a null
WellFormedUpstreams ==
  {[list |-> l, shape |-> "ads", lead |-> "none", cut |-> 0] :
     l \in {<<>>, <<GoodAd, PaddedAd, GoodAd>>, <<GoodAd, GoodAd, GoodAd, JNull>>}}

InitRequests ==
  /\ body \in RequestBodies
  /\ apiKey \in {"", "sk-key"}
  /\ pc = "start"
  /\ h1 = NoValue
  /\ meta = NoValue
  /\ calls = <<>>
  /\ upstream = NoUpstream
  /\ content = <<>>
  /\ response = NoResponse
  /\ storage = NoItem
  /\ PageInitial

RequestCompletionResolves == CompletionResolvesWith(WellFormedUpstreams)

NextRequests ==
  \/ GenerateStart
  \/ ScrapeResolves
  \/ ScrapeRejects
  \/ RequestCompletionResolves
  \/ CompletionRejects

RequestSpec == InitRequests /\ [][NextRequests]_vars

TypeOK == pc \in {"start", "scraping", "completing", "done"}

(***************************************************************************)
(* Translation route, POST of api/translate/route.ts.                      *)
(***************************************************************************)
\* ads is a list of ads when adsIsArray, anything else otherwise
TranslateBodies ==
  {[json |-> j, adsIsArray |-> TRUE, ads |-> [i \in 1..n |-> BaseAd],
    targetLanguage |-> t] :
     j \in BOOLEAN, n \in 0..MaxReqAds, t \in {"", "German"}}
  \cup {[json |-> TRUE, adsIsArray |-> FALSE, ads |-> <<>>, targetLanguage |-> t] :
          t \in {"", "German"}}

\* the route with the bare-array tolerance of the generation route
TranslateResponse_AcceptsBare(text) ==
  LET parsed == JSONParse(text)
      ads == IF parsed.ok /\ ~PropThrows(parsed.val)
             THEN GetProp(parsed.val, Chars("ads")) ELSE Undefined
      result == IF parsed.ok /\ IsArray(parsed.val) THEN parsed.val.a
                ELSE IF IsArray(ads) THEN ads.a ELSE <<>>
  IN IF Len(result) = 0
     THEN Response(502, ERR_INVALID_JSON, {"error", "raw"}, text, <<>>, <<>>, NoSource)
     ELSE Response(200, "", {"ads"}, <<>>, <<>>, result, NoSource)

\* the route without its test for an empty result
TranslateResponse_NoEmptyCheck(text) ==
  LET parsed == JSONParse(text)
      ads == IF parsed.ok /\ ~PropThrows(parsed.val)
             THEN GetProp(parsed.val, Chars("ads")) ELSE Undefined
      result == IF IsArray(ads) THEN ads.a ELSE <<>>
  IN IF ~IsArray(ads)
     THEN Response(502, ERR_INVALID_JSON, {"error", "raw"}, text, <<>>, <<>>, NoSource)
     ELSE Response(200, "", {"ads"}, <<>>, <<>>, result, NoSource)

\* lines 62-71: the response of the route to a completion text
TranslateResponse(text) ==
  LET parsed == JSONParse(text)
      ads == IF parsed.ok /\ ~PropThrows(parsed.val)
             THEN GetProp(parsed.val, Chars("ads")) ELSE Undefined
      result == IF IsArray(ads) THEN ads.a ELSE <<>>
  IN IF Len(result) = 0
     THEN Response(502, ERR_INVALID_JSON, {"error", "raw"}, text, <<>>, <<>>, NoSource)
     ELSE Response(200, "", {"ads"}, <<>>, <<>>, result, NoSource)

InitTranslate ==
  /\ body \in TranslateBodies
  /\ apiKey \in {"", "sk-key"}
  /\ pc = "start"
  /\ h1 = NoValue
  /\ meta = NoValue
  /\ calls = <<>>
  /\ upstream = NoUpstream
  /\ content = <<>>
  /\ response = NoResponse
  /\ storage = NoItem
  /\ PageInitial

\* lines 17-26: the credential check and the completion call
TranslateCallCompletion ==
  IF apiKey = ""
  THEN /\ Finish(ErrorResponse(500, ERR_MISSING_KEY))
       /\ UNCHANGED calls
  ELSE /\ pc' = "completing"
       /\ calls' = Append(calls, "completion")
       /\ UNCHANGED response

\* lines 12-26: the body is read and validated, the completion is called
TranslateStart ==
  /\ pc = "start"
  /\ IF ~body.json
     THEN /\ Finish(ErrorResponse(500, "Unexpected end of JSON input"))
          /\ UNCHANGED calls
     ELSE IF ~body.adsIsArray \/ body.targetLanguage = ""
     THEN /\ Finish(ErrorResponse(400, ERR_MISSING_DATA))
          /\ UNCHANGED calls
     ELSE TranslateCallCompletion
  /\ UNCHANGED <<body, apiKey, h1, meta, upstream, content>>
  /\ UNCHANGED pageVars

\* lines 61-71: the completion resolves, its text is parsed and answered
TranslateCompletionResolves ==
  /\ pc = "completing"
  /\ \E u \in Upstreams :
       LET text == TrimText(TextOf(u)) IN
       /\ upstream' = u
       /\ content' = text
       /\ Finish(TranslateResponse(text))
  /\ calls' = Append(calls, "completion:ok")
  /\ UNCHANGED <<body, apiKey, h1, meta>>
  /\ UNCHANGED pageVars

\* lines 26, 72-75: the completion call rejects
TranslateCompletionRejects ==
  /\ pc = "completing"
  /\ Finish(ErrorResponse(500, "Connection error."))
  /\ calls' = Append(calls, "completion:error")
  /\ UNCHANGED <<body, apiKey, h1, meta, upstream, content>>
  /\ UNCHANGED pageVars

NextTranslate ==
  \/ TranslateStart
  \/ TranslateCompletionResolves
  \/ TranslateCompletionRejects

TranslateSpec == InitTranslate /\ [][NextTranslate]_vars

(***************************************************************************)
(* The browser page, Home of app/page.tsx: its history list and the        *)
(* localStorage item that mirrors it.  One request is in flight at most,   *)
(* as every button that starts one is disabled while loading.              *)
(***************************************************************************)
\* line 53: the number of entries the history keeps
HistoryCap == 100

\* Number.prototype.toString: the decimal digits of n
RECURSIVE Digits(_)
Digits(n) ==
  IF n < 10 THEN <<ToString(n)>> ELSE Digits(n \div 10) \o <<ToString(n % 10)>>

\* crypto.randomUUID() of the k-th pushHistory: a fresh identifier
NewId(k) == JStr(<<"n">> \o Digits(k))
\* Date.now() of the k-th pushHistory: later than every stored entry
NewTime(k) == JNum(Digits(HistoryCap + k))

\* the i-th oldest entry an earlier visit left in the storage
StoredEntry(i) ==
  JObj(<<Key("id"), JStr(<<"s">> \o Digits(i)), Key("createdAt"), JNum(Digits(i)),
         Key("label"), JStr(<<"Prevod v German">>), Key("ads"), JArr(<<GoodAd>>)>>)

\* the list an earlier visit left: n entries, the newest first
StoredHistory(n) == [i \in 1..n |-> StoredEntry(n + 1 - i)]

\* what the storage holds when the page opens: nothing, an empty string, a
\* text that is no JSON, a JSON object, or the list of an earlier visit
StoredItems ==
  {NoItem, Item(<<>>), Item(<<Tok("junk")>>), Item(Stringify(JObj(<<>>)))}
  \cup {Item(Stringify(JArr(StoredHistory(n)))) : n \in {0, 1, HistoryCap - 1, HistoryCap}}

\* what a route answers to the page: an error, or 200 with its ads
PageAnswers(kind) ==
  {[ok |-> FALSE, ads |-> <<>>],
   [ok |-> TRUE,
    ads |-> IF kind = "translate" THEN <<PaddedAd>> ELSE <<GoodAd, GoodAd, GoodAd>>]}

InitHistory ==
  /\ body = [json |-> FALSE, url |-> NoValue, hasVariantOf |-> FALSE,
             customPrompt |-> <<>>, language |-> NoValue]
  /\ apiKey = ""
  /\ pc = "start"
  /\ h1 = NoValue
  /\ meta = NoValue
  /\ calls = <<>>
  /\ upstream = NoUpstream
  /\ content = <<>>
  /\ response = NoResponse
  /\ storage \in StoredItems
  /\ PageInitial

\* lines 31-38 and 123-126: the effect of the first render loads the history
LoadHistory ==
  /\ ~mounted
  /\ mounted' = TRUE
  /\ history' =
       IF ~storage.present \/ storage.text = <<>> THEN history
       ELSE LET parsed == JSONParse(storage.text)
            IN IF parsed.ok /\ IsArray(parsed.val) THEN parsed.val.a ELSE history
  /\ UNCHANGED <<storage, selectedHistoryId, pageAds, pending, pushes, lastHistoryOp,
                 lastSetItem>>
  /\ UNCHANGED serverVars

\* lines 40-44: setItem writes the list, or throws and is ignored
PersistHistory(next) ==
  \E written \in BOOLEAN :
    /\ storage' = IF written THEN Item(Stringify(JArr(next))) ELSE storage
    /\ lastSetItem' = IF written THEN "ok" ELSE "threw"

\* line 53 without slice(0, 100)
NextHistory_Uncapped(newEntry, prev) == <<newEntry>> \o prev

\* line 53: [newEntry, ...prev].slice(0, 100)
NextHistory(newEntry, prev) ==
  LET all == <<newEntry>> \o prev
  IN SubSeq(all, 1, IF Len(all) < HistoryCap THEN Len(all) ELSE HistoryCap)

\* lines 46-58: pushHistory(entry), members being the members of entry
PushHistory(members) ==
  LET newEntry ==
        JObj(<<Key("id"), NewId(pushes + 1), Key("createdAt"), NewTime(pushes + 1)>>
             \o members)
      next == NextHistory(newEntry, history)
  IN /\ history' = next
     /\ PersistHistory(next)
     /\ selectedHistoryId' = NewId(pushes + 1)
     /\ pushes' = pushes + 1
     /\ lastHistoryOp' = "push"

NoPush ==
  UNCHANGED <<history, storage, selectedHistoryId, pushes, lastHistoryOp, lastSetItem>>

\* lines 60-74: the form is submitted with the url of its input
SubmitStart ==
  /\ mounted /\ pending = NoRequest /\ pushes < MaxPushes
  /\ \E url \in {"", ProductUrl} :
       /\ pageAds' = <<>>
       /\ pending' = IF url = "" THEN NoRequest
                     ELSE [kind |-> "generate", label |-> <<"shop.example">>]
  /\ NoPush
  /\ UNCHANGED mounted
  /\ UNCHANGED serverVars

\* lines 75-89: the generation request of the form ends
SubmitCompletes ==
  /\ pending.kind = "generate"
  /\ \E data \in PageAnswers("generate") :
       IF data.ok
       THEN /\ pageAds' = data.ads
            /\ PushHistory(<<Key("url"), JStr(<<ProductUrl>>),
                             Key("customPrompt"), JStr(<<>>),
                             Key("label"), JStr(pending.label),
                             Key("ads"), JArr(data.ads)>>)
       ELSE /\ UNCHANGED pageAds
            /\ NoPush
  /\ pending' = NoRequest
  /\ UNCHANGED mounted
  /\ UNCHANGED serverVars

\* lines 97-104 and 272-273: variations of one of the ads shown are asked for
VariantsStart ==
  /\ mounted /\ pending = NoRequest /\ pushes < MaxPushes
  /\ \E i \in 1..Len(pageAds) :
       LET title == StringOf(GetProp(pageAds[i], Chars("title")))
       IN pending' = [kind |-> "variation",
                      label |-> <<"Variacije: ">>
                                \o SubSeq(title, 1, IF Len(title) < 24 THEN Len(title) ELSE 24)]
  /\ UNCHANGED pageAds
  /\ NoPush
  /\ UNCHANGED mounted
  /\ UNCHANGED serverVars

\* lines 105-119: the variation request ends
VariantsCompletes ==
  /\ pending.kind = "variation"
  /\ \E data \in PageAnswers("variation") :
       IF data.ok
       THEN /\ pageAds' = pageAds \o data.ads
            /\ PushHistory(<<Key("label"), JStr(pending.label),
                             Key("ads"), JArr(data.ads)>>)
       ELSE /\ UNCHANGED pageAds
            /\ NoPush
  /\ pending' = NoRequest
  /\ UNCHANGED mounted
  /\ UNCHANGED serverVars

\* lines 204-214: the ads shown are sent for translation
TranslateClick ==
  /\ mounted /\ pending = NoRequest /\ pushes < MaxPushes
  /\ pageAds # <<>>
  /\ pending' = [kind |-> "translate", label |-> <<"Prevod v German">>]
  /\ UNCHANGED pageAds
  /\ NoPush
  /\ UNCHANGED mounted
  /\ UNCHANGED serverVars

\* lines 215-224: the translation request ends
TranslateCompletes ==
  /\ pending.kind = "translate"
  /\ \E data \in PageAnswers("translate") :
       IF data.ok
       THEN /\ pageAds' = data.ads
            /\ PushHistory(<<Key("label"), JStr(pending.label),
                             Key("ads"), JArr(data.ads)>>)
       ELSE /\ UNCHANGED pageAds
            /\ NoPush
  /\ pending' = NoRequest
  /\ UNCHANGED mounted
  /\ UNCHANGED serverVars

\* line 136: the history is cleared
ClearHistory ==
  /\ mounted
  /\ history' = <<>>
  /\ PersistHistory(<<>>)
  /\ lastHistoryOp' = "clear"
  /\ UNCHANGED <<mounted, selectedHistoryId, pageAds, pending, pushes>>
  /\ UNCHANGED serverVars

\* line 145: an entry of the history is clicked, the first or the last here
SelectHistory ==
  /\ mounted
  /\ \E i \in {1, Len(history)} \cap DOMAIN history :
       /\ selectedHistoryId' = GetProp(history[i], Chars("id"))
       /\ pageAds' = GetProp(history[i], Chars("ads")).a
  /\ UNCHANGED <<mounted, history, storage, pending, pushes, lastHistoryOp,
                 lastSetItem>>
  /\ UNCHANGED serverVars

NextHistoryStep ==
  \/ LoadHistory
  \/ SubmitStart
  \/ SubmitCompletes
  \/ VariantsStart
  \/ VariantsCompletes
  \/ TranslateClick
  \/ TranslateCompletes
  \/ ClearHistory
  \/ SelectHistory

HistorySpec == InitHistory /\ [][NextHistoryStep]_vars

(***************************************************************************)
(* Properties.                                                             *)
(***************************************************************************)
Done == pc = "done"
Answered == Done /\ upstream.shape # "none"

\* the completion text as the API returned it
Original == TextOf(upstream)

\* a string that is non-empty and has no whitespace at either end
IsTrimmedNonEmpty(x) == x # <<>> /\ x[1] # " " /\ x[Len(x)] # " "

IsAdItem(a) ==
  IsTrimmedNonEmpty(a.title) /\ IsTrimmedNonEmpty(a.description) /\ IsTrimmedNonEmpty(a.cta)

\* C1: a 200 response of the generation route carries exactly 3 ads, each
\* with a non-empty, trimmed title, description and cta.
C1_OkCarriesThreeAdItems ==
  response.status = 200 =>
    /\ Len(response.ads) = 3
    /\ \A i \in 1..Len(response.ads) : IsAdItem(response.ads[i])

\* a 200 answer to a four-element list whose second ad needed trimming
C1_Witness ==
  /\ Done
  /\ response.status = 200
  /\ Len(upstream.list) = 4
  /\ upstream.list[2] = PaddedAd
  /\ response.ads[2].title = <<"d">>

\* C2: a generation request with neither url nor variantOf is answered 400
\* with an error message, and no outbound call is ever made for it.
C2_MissingInputIs400WithoutCalls ==
  (body.json /\ body.url = NoValue /\ ~body.hasVariantOf) =>
    /\ calls = <<>>
    /\ pc \in {"start", "done"}
    /\ Done => /\ response.status = 400
               /\ response.keys = {"error"}
               /\ response.error # ""

C2_Witness ==
  /\ Done
  /\ body.json /\ body.url = NoValue /\ ~body.hasVariantOf
  /\ apiKey # ""
  /\ response.status = 400

\* no array can be recovered from the text: the strict parse fails and the
\* text from the first [ to the last ] is absent or is no non-empty array
Unrecoverable(x) ==
  /\ ~JSONParse(x).ok
  /\ LET i == IndexOf(x, "[")
         j == LastIndexOf(x, "]")
         inner == JSONParse(SubSeq(x, i, j))
     IN \/ i = 0 \/ j = 0 \/ j <= i
        \/ ~inner.ok
        \/ inner.val.a = <<>>

\* r is x without the whitespace at its two ends
IsTrimOf(r, x) ==
  /\ r = <<>> \/ (r[1].k # "ws" /\ r[Len(r)].k # "ws")
  /\ \E i \in 0..Len(x) :
       /\ i + Len(r) <= Len(x)
       /\ SubSeq(x, i + 1, i + Len(r)) = r
       /\ \A n \in 1..Len(x) : (n <= i \/ n > i + Len(r)) => x[n].k = "ws"

\* C3 as stated: malformed JSON from which no array is recovered is answered
\* 502 with raw equal to the original completion text.
C3_RawIsOriginalText ==
  (Answered /\ Unrecoverable(Original)) =>
    /\ response.status = 502
    /\ "raw" \in response.keys
    /\ response.raw = Original

\* C3 amended: malformed JSON from which no array is recovered is answered
\* 502 with raw equal to the completion text without the whitespace at its
\* two ends.
C3_RawIsTrimmedText ==
  (Answered /\ Unrecoverable(Original)) =>
    /\ response.status = 502
    /\ response.keys = {"error", "raw"}
    /\ IsTrimOf(response.raw, Original)

\* a truncated {"ads":[{"title": ... text behind whitespace, answered 502
C3_Witness ==
  /\ Answered
  /\ upstream.shape = "ads" /\ upstream.cut = 2 /\ upstream.lead = "ws"
  /\ Len(upstream.list) > 0
  /\ Unrecoverable(Original)
  /\ response.status = 502
  /\ response.raw # Original

\* the list the generation route recovers from a text, <<>> when it finds none
ParsedList(x) ==
  LET strict == StrictParse(x)
  IN IF ~strict.thrown THEN strict.parsed ELSE FallbackParse(x)

\* the member of an element is a string with a character that is no whitespace
HasText(v, name) ==
  /\ v.t = "obj"
  /\ LET m == GetProp(v, Chars(name))
     IN m.t = "str" /\ \E n \in 1..Len(m.s) : m.s[n] # " "

\* an element with non-empty trimmed title, description and cta
IsValidElem(v) == HasText(v, "title") /\ HasText(v, "description") /\ HasText(v, "cta")

\* the ad item of a valid element
AdItemOf(v) ==
  [title |-> Trim(GetProp(v, Chars("title")).s),
   description |-> Trim(GetProp(v, Chars("description")).s),
   cta |-> Trim(GetProp(v, Chars("cta")).s)]

\* the valid ones among the first three elements, in their order
ValidOfFirstThree(l) ==
  LET first == SubSeq(l, 1, IF Len(l) < 3 THEN Len(l) ELSE 3)
      valid == SelectSeq(first, IsValidElem)
  IN [i \in 1..Len(valid) |-> AdItemOf(valid[i])]

\* C4 as stated: a non-empty parsed list with fewer than 3 valid items among
\* its first 3 is answered 502 with items = those valid items, in order.
C4_TooFewIs502WithValidItems ==
  (Answered /\ Len(ParsedList(content)) > 0
            /\ Len(ValidOfFirstThree(ParsedList(content))) < 3) =>
    /\ response.status = 502
    /\ "items" \in response.keys
    /\ response.items = ValidOfFirstThree(ParsedList(content))

\* C6 as stated: a completion that parses to an empty list is answered like
\* a parse failure, 502 with the completion text in raw.
C6_EmptyListIsParseFailure ==
  (Answered /\ ~StrictParse(content).thrown /\ StrictParse(content).parsed = <<>>) =>
    /\ response.status = 502
    /\ "raw" \in response.keys
    /\ response.raw = content

\* the last outbound call of the request failed
LastCallFailed ==
  calls # <<>> /\ calls[Len(calls)] \in {"scrape:error", "completion:error"}

\* C9 as stated: 500 only for a missing credential or a call that throws;
\* every malformed or incomplete model output is answered 502.
C9_StatusFollowsTaxonomy ==
  (body.json /\ Done) =>
    /\ response.status = 500 => (apiKey = "" \/ LastCallFailed)
    /\ (Answered /\ Len(ValidOfFirstThree(ParsedList(content))) < 3) =>
         response.status = 502

Count(log, e) == Cardinality({i \in 1..Len(log) : log[i] = e})

\* at most one scrape and one completion call, the scrape finished before the
\* completion starts, nothing after a failure, no completion call after a
\* failed scrape or without a credential
SingleSequentialCalls ==
  /\ Count(calls, "scrape") <= 1
  /\ Count(calls, "completion") <= 1
  /\ \A i \in 1..Len(calls) :
       /\ calls[i] = "scrape" => i = 1
       /\ calls[i] = "completion" =>
            /\ apiKey # ""
            /\ i = 1 \/ (i = 3 /\ calls[1] = "scrape" /\ calls[2] = "scrape:ok")
       /\ calls[i] \in {"scrape:error", "completion:error"} =>
            i = Len(calls) /\ Done

\* the request ended in the configuration error
ConfigError == Done /\ response.error = ERR_MISSING_KEY

\* C10 as stated: single sequential calls without retry, and a request that
\* ends in the configuration error has made no outbound call.
C10_NoCallBeforeConfigError ==
  /\ SingleSequentialCalls
  /\ ConfigError => calls = <<>>

\* C10 amended: single sequential calls without retry, and a request that
\* ends in the configuration error has made no completion call, but has made
\* and awaited its scrape call when it carries a url.
C10_OnlyScrapeBeforeConfigError ==
  /\ SingleSequentialCalls
  /\ ConfigError =>
       /\ response.status = 500
       /\ calls = IF body.url \in {NoValue, ""} THEN <<>> ELSE <<"scrape", "scrape:ok">>

\* a request with a url and no credential, answered after its scrape
C10_Witness ==
  /\ ConfigError
  /\ body.url = ProductUrl
  /\ calls = <<"scrape", "scrape:ok">>
  /\ h1 = "Heading"

(***************************************************************************)
(* Properties of the translation route.                                    *)
(***************************************************************************)
\* the completion text is the JSON the upstream model meant, undamaged
Intact == upstream.cut = 0 /\ upstream.lead # "prose"

\* the answer of the route, had the same list come wrapped as {ads: [...]}
WrappedAnswer == TranslateResponse(TrimText(TextOf([upstream EXCEPT !.shape = "ads"])))

C7_OkAdsAreValid ==
  /\ response.status = 200 =>
       \A i \in 1..Len(response.ads) : IsValidElem(response.ads[i])
  /\ (Answered /\ \A i \in 1..Len(upstream.list) : ~IsValidElem(upstream.list[i])) =>
       response.status = 502 /\ "raw" \in response.keys

\* C8 as stated: a 200 translation response carries between 1 and N ads,
\* N the number of ads of the request.
C8_BetweenOneAndRequested ==
  response.status = 200 =>
    Len(response.ads) >= 1 /\ Len(response.ads) <= Len(body.ads)

\* C8 amended: a 200 translation response carries at least 1 ad; their
\* number is that of the completion's ads array, whatever N is.
C8_AtLeastOne ==
  response.status = 200 =>
    Len(response.ads) >= 1 /\ Len(response.ads) = Len(upstream.list)

\* a 200 response with more ads than the request carried
C8_Witness ==
  /\ Done
  /\ response.status = 200
  /\ Len(body.ads) = 1
  /\ Len(response.ads) = 3

(***************************************************************************)
(* Which generation requests are accepted.                                 *)
(***************************************************************************)
\* the request went past the validation of its body
Accepted == body.json /\ pc # "start" /\ response.status # 400

HasUrl == body.url = ProductUrl

\* C11 as stated: a generation request is accepted only with exactly one of
\* url and variantOf, and a variation request never triggers a scrape call.
C11_ExactlyOneAccepted ==
  /\ Accepted => (HasUrl /\ ~body.hasVariantOf) \/ (~HasUrl /\ body.hasVariantOf)
  /\ body.hasVariantOf => Count(calls, "scrape") = 0

\* C11 amended: a generation request is accepted exactly when it has a url
\* or a variantOf; one with both is accepted, its url is scraped and its
\* prompt is that of a variation; a variation request triggers a scrape call
\* exactly when it also has a url.
C11_AtLeastOneAccepted ==
  /\ Accepted => HasUrl \/ body.hasVariantOf
  /\ (body.json /\ Done /\ response.status = 400) => ~HasUrl /\ ~body.hasVariantOf
  /\ (body.json /\ pc # "start") => (Count(calls, "scrape") = 1 <=> HasUrl)
  /\ (Count(calls, "completion") = 1 /\ body.hasVariantOf) =>
       /\ Prompt.mode = "variation"
       /\ Prompt.productUrl = "" /\ Prompt.title = ""
  /\ (Count(calls, "completion") = 1 /\ ~body.hasVariantOf) =>
       /\ Prompt.mode = IF body.customPrompt \in {<<>>, <<" ">>} THEN "generic"
                        ELSE "custom"
       /\ Prompt.productUrl = ProductUrl

\* a request with both, scraped, prompted as a variation and answered 200
C11_Witness ==
  /\ Done
  /\ HasUrl /\ body.hasVariantOf
  /\ calls = <<"scrape", "scrape:ok", "completion", "completion:ok">>
  /\ Prompt.mode = "variation"
  /\ response.status = 200
  /\ response.source.variant /\ response.source.h1 = "Heading"

(***************************************************************************)
(* The history of the page.                                                *)
(***************************************************************************)
AfterHistoryOp == lastHistoryOp \in {"push", "clear"}

\* at most 100 entries, the entry of the last pushHistory first and every
\* entry newer than the one after it
NewestFirstCapped ==
  /\ Len(history) <= HistoryCap
  /\ lastHistoryOp = "push" =>
       history # <<>> /\ GetProp(history[1], Chars("id")) = NewId(pushes)
  /\ \A i \in 1..(Len(history) - 1) :
       GetProp(history[i], Chars("createdAt")) # GetProp(history[i + 1], Chars("createdAt"))
  /\ \A i \in 2..Len(history) :
       GetProp(history[i], Chars("id")).s[1] = "n" =>
         GetProp(history[i - 1], Chars("id")).s[1] = "n"
  /\ Cardinality({GetProp(history[i], Chars("id")) : i \in DOMAIN history}) = Len(history)

\* the storage item is the JSON text of the history list
StorageIsHistory ==
  /\ storage.present
  /\ storage.text = Stringify(JArr(history))

====
